---------------------------- MODULE Spec2Model ----------------------------
(***************************************************************************)
(* PSW power-supply controller (src/ver2.py, src/main.py).                *)
(*                                                                         *)
(* Six specifications over one set of variables:                           *)
(*   SpecCtl    PSWController driven directly by an arbitrary caller       *)
(*   Spec       the application: MainWindow's slots driving its controller *)
(*   SpecQuery  one query step by step: write, wait for bytes, return      *)
(*   SpecEcho   the controller on a transport that echoes the level set    *)
(*   SpecPair   the controllers of ver2.py and main.py given the same calls *)
(*   SpecLoop   the window's event loop, a slow instrument, the input buffer*)
(*                                                                         *)
(* Text is modelled by TLA+ strings, read character by character.  A       *)
(* Python float is modelled by an integer counting units of                *)
(* 10^-(FracDigits+1), one decimal digit finer than the ".4f" format, so   *)
(* that formatting rounds.  The texts and numbers used have at most        *)
(* FracDigits+1 fractional digits and never end in a rounding tie.         *)
(***************************************************************************)
EXTENDS Integers, Sequences, FiniteSets, TLC

VARIABLES
    ser,          \* PSWController.ser: "None" or "Open" (an open serial.Serial)
    target_v,     \* PSWController.target_v
    target_i,     \* PSWController.target_i
    is_remote,    \* MainWindow.is_remote
    on_red,       \* MainWindow.btn_on painted red (the output mirror)
    chk_ovp_en,   \* MainWindow.chk_ovp_en.isChecked()
    chk_ocp_en,   \* MainWindow.chk_ocp_en.isChecked()
    op,           \* the last operation: [name, arg]
    out,          \* its outcome: [st, val]
    io,           \* the transport calls it made, in order: [k, line]
    reqV,         \* argument of the most recent set_voltage call
    reqI,         \* argument of the most recent set_current call
    handles,      \* serial.Serial objects this controller opened, still open
    sentMode,     \* mode command last written on this connection, or "none"
    rx,           \* bytes a pending ser.readline() has received so far
    waited,       \* clock ticks the pending read has waited for its next byte
    basic,        \* the PSWController of main.py: [ser, target_v, target_i, out, io]
    owed,         \* reply lines the instrument has still to send
    inbuf,        \* reply lines in the port's input buffer, not read yet
    events,       \* clicks Qt has queued for the event loop
    inflight      \* slots that were entered and have not returned

vars == <<ser, target_v, target_i, is_remote, on_red, chk_ovp_en, chk_ocp_en,
          op, out, io, reqV, reqI, handles, sentMode, rx, waited,
          basic, owed, inbuf, events, inflight>>

-----------------------------------------------------------------------------
(* Numbers and text *)

\* digits after the point in every formatted number (":.4f")
FracDigits == 4

RECURSIVE Pow10(_)
Pow10(n) == IF n = 0 THEN 1 ELSE 10 * Pow10(n - 1)

\* one float unit is 1/Unit
Unit == Pow10(FracDigits + 1)

Digits == <<"0", "1", "2", "3", "4", "5", "6", "7", "8", "9">>

IsDigit(c) == \E d \in 1..10 : Digits[d] = c

DigitVal(c) == (CHOOSE d \in 1..10 : Digits[d] = c) - 1

Char(s, k) == SubSeq(s, k, k)

Whitespace == {" ", "\t", "\n", "\r"}

RECURSIVE LStrip(_)
LStrip(s) == IF Len(s) > 0 /\ Head(s) \in Whitespace THEN LStrip(Tail(s)) ELSE s

RECURSIVE RStrip(_)
RStrip(s) ==
    IF Len(s) > 0 /\ Char(s, Len(s)) \in Whitespace
    THEN RStrip(SubSeq(s, 1, Len(s) - 1))
    ELSE s

\* str.strip()
Strip(s) == RStrip(LStrip(s))

\* index of the first "," of s, 0 when there is none
RECURSIVE FindComma(_, _)
FindComma(s, k) ==
    IF k > Len(s) THEN 0
    ELSE IF Char(s, k) = "," THEN k
    ELSE FindComma(s, k + 1)

\* str.split(",")
RECURSIVE Split(_)
Split(s) ==
    LET k == FindComma(s, 1) IN
    IF k = 0 THEN <<s>>
    ELSE <<SubSeq(s, 1, k - 1)>> \o Split(SubSeq(s, k + 1, Len(s)))

RECURSIVE AllDigits(_)
AllDigits(s) == Len(s) = 0 \/ (IsDigit(Head(s)) /\ AllDigits(Tail(s)))

RECURSIVE DigitsVal(_, _)
DigitsVal(s, acc) ==
    IF Len(s) = 0 THEN acc ELSE DigitsVal(Tail(s), 10 * acc + DigitVal(Head(s)))

RECURSIVE FindDot(_, _)
FindDot(s, k) ==
    IF k > Len(s) THEN 0
    ELSE IF Char(s, k) = "." THEN k
    ELSE FindDot(s, k + 1)

HasSign(s) == Len(s) > 0 /\ Head(s) \in {"+", "-"}

Unsigned(s) == IF HasSign(s) THEN Tail(s) ELSE s

Sign(s) == IF Len(s) > 0 /\ Head(s) = "-" THEN -1 ELSE 1

\* an absent value (Python None) and a present one
None == <<>>
Some(x) == <<x>>

\* int(s): surrounding whitespace, a sign, decimal digits; None for ValueError
ParseInt(s) ==
    LET t == Strip(s)
        u == Unsigned(t)
    IN  IF Len(u) > 0 /\ AllDigits(u) THEN Some(Sign(t) * DigitsVal(u, 0)) ELSE None

\* float(s): surrounding whitespace, a sign, digits with an optional point;
\* None for ValueError.  The value is in units of 1/Unit.
ParseFloat(s) ==
    LET t == Strip(s)
        u == Unsigned(t)
        d == FindDot(u, 1)
        ip == IF d = 0 THEN u ELSE SubSeq(u, 1, d - 1)
        fp == IF d = 0 THEN "" ELSE SubSeq(u, d + 1, Len(u))
    IN  IF /\ Len(ip) + Len(fp) > 0
           /\ AllDigits(ip) /\ AllDigits(fp)
           /\ Len(fp) <= FracDigits + 1
        THEN Some(Sign(t) * (DigitsVal(ip, 0) * Unit
                             + DigitsVal(fp, 0) * Pow10(FracDigits + 1 - Len(fp))))
        ELSE None

\* n in decimal, left-padded with zeros to w digits
RECURSIVE ZeroPad(_, _)
ZeroPad(n, w) ==
    IF w = 0 THEN (IF n = 0 THEN "" ELSE ToString(n))
    ELSE ZeroPad(n \div 10, w - 1) \o Digits[(n % 10) + 1]

Abs(x) == IF x < 0 THEN -x ELSE x

\* mutant: the digits beyond the fourth are cut off instead of rounded
Fmt4_truncates(x) ==
    LET q == Abs(x) \div 10
    IN  (IF x < 0 THEN "-" ELSE "")
        \o ToString(q \div Pow10(FracDigits)) \o "."
        \o ZeroPad(q % Pow10(FracDigits), FracDigits)

\* f"{x:.4f}"
Fmt4(x) ==
    LET q == (Abs(x) + 5) \div 10
    IN  (IF x < 0 THEN "-" ELSE "")
        \o ToString(q \div Pow10(FracDigits)) \o "."
        \o ZeroPad(q % Pow10(FracDigits), FracDigits)

\* a & b for b >= 0 (two's complement, as Python's int)
RECURSIVE BitAnd(_, _)
BitAnd(a, b) ==
    IF b = 0 THEN 0 ELSE (a % 2) * (b % 2) + 2 * BitAnd(a \div 2, b \div 2)

CRLF == "\r\n"

-----------------------------------------------------------------------------
(* Inputs *)

\* float arguments a caller passes to the controller, in units of 1/Unit:
\* 5.0, 12.34567 (which ".4f" rounds up), -1.0
Values == {5 * Unit, 1234567, -Unit}

\* what the operator types into a QLineEdit
Texts == {"5.0", "12.34567", "-1.0", "abc"}

\* what serial.Serial.readline() returns: a line, or the bytes that came before
\* the timeout ("" for none).  "#" stands for a byte that is not ASCII.
WireLines ==
    {"", "12.3400,0.5000\r\n", "ERR#\r\n", "1,2,3\r\n", "abc,1.0\r\n",
     "0\r\n", "2\r\n", "3\r\n", "4\r\n", "-1\r\n", "15.0000\r\n"}

\* how the port behaves during one operation: wf, ser.write raises; rf,
\* ser.readline raises; line, what ser.readline returns
Env(wf, line, rf) == [wf |-> wf, line |-> line, rf |-> rf]

\* ... during an operation that only writes
WriteEnv == {Env(TRUE, "", FALSE), Env(FALSE, "", FALSE)}

\* ... during a query
QueryEnv ==
    {Env(TRUE, "", FALSE), Env(FALSE, "", TRUE)}
        \cup {Env(FALSE, l, FALSE) : l \in WireLines}

\* bytes.decode("ascii", errors="ignore")
RECURSIVE Decode(_)
Decode(b) ==
    IF Len(b) = 0 THEN ""
    ELSE (IF Head(b) = "#" THEN "" ELSE Head(b)) \o Decode(Tail(b))

-----------------------------------------------------------------------------
(* PSWController *)

NoVal == <<>>

W(line) == [k |-> "w", line |-> line]
R(line) == [k |-> "r", line |-> line]
O(port) == [k |-> "o", line |-> port]

\* most handles the model lets one controller have open at once
MaxHandles == 3

\* mutant: the exception of serial.Serial is swallowed in open()
open_swallows(port, finalised) ==
    IF port = "bad"
    THEN [st |-> "ok", ser |-> ser, handles |-> handles, io |-> <<O(port)>>]
    ELSE [st |-> "ok", ser |-> "Open",
          handles |-> IF ser = "Open" /\ ~finalised THEN handles + 1
                      ELSE IF ser = "Open" THEN handles ELSE handles + 1,
          io |-> <<O(port)>>]

\* open(port); finalised: the interpreter closes the Serial object that
\* self.ser held before, once nothing refers to it.  serial.Serial(port=...)
\* raises when the port does not open, and self.ser keeps its value; otherwise
\* self.ser is bound to the new handle, and open() itself closes nothing.
open(port, finalised) ==
    IF port = "bad"
    THEN [st |-> "OpenError", ser |-> ser, handles |-> handles, io |-> <<O(port)>>]
    ELSE [st |-> "ok", ser |-> "Open",
          handles |-> IF ser = "Open" /\ ~finalised THEN handles + 1
                      ELSE IF ser = "Open" THEN handles ELSE handles + 1,
          io |-> <<O(port)>>]

\* mutant: ser.close() is called without the test that there is a port
close_unguarded(s, h) ==
    IF s = "None" THEN [st |-> "AttributeError", ser |-> s, handles |-> h]
    ELSE [st |-> "ok", ser |-> "None", handles |-> h - 1]

\* close() of a controller whose self.ser is s, with h handles open
close(s, h) ==
    [st |-> "ok", ser |-> "None", handles |-> IF s = "Open" THEN h - 1 ELSE h]

is_open == ser # "None"

Raise(st) == [st |-> st, val |-> NoVal, io |-> <<>>]

\* mutant: no is_open() test before the write
_write_unguarded(cmd, wf) ==
    IF wf THEN Raise("IoError")
    ELSE [st |-> "ok", val |-> NoVal, io |-> <<W(cmd \o CRLF)>>]

\* _write(cmd); wf: ser.write raises (an I/O fault of the port)
_write(cmd, wf) ==
    IF ~is_open THEN Raise("NotOpen")
    ELSE IF wf THEN Raise("IoError")
    ELSE [st |-> "ok", val |-> NoVal, io |-> <<W(cmd \o CRLF)>>]

\* _readline(); line: what ser.readline() returns; rf: it raises
_readline(line, rf) ==
    IF ~is_open THEN Raise("NotOpen")
    ELSE IF rf THEN Raise("IoError")
    ELSE [st |-> "ok", val |-> Strip(Decode(line)), io |-> <<R(line)>>]

\* mutant: the reply is read whether or not the command went out
query_reads_anyway(cmd, wf, line, rf) ==
    LET w == _write(cmd, wf)
        r == _readline(line, rf)
    IN  [st |-> r.st, val |-> r.val, io |-> w.io \o r.io]

query(cmd, wf, line, rf) ==
    LET w == _write(cmd, wf) IN
    IF w.st # "ok" THEN w
    ELSE LET r == _readline(line, rf)
         IN  [st |-> r.st, val |-> r.val, io |-> w.io \o r.io]

get_idn(wf, line, rf) == query("*IDN?", wf, line, rf)

\* apply_vi() with the fields as they are when it runs
apply_vi(tv, ti, wf) == _write("APPLy " \o Fmt4(tv) \o "," \o Fmt4(ti), wf)

\* mutant: the voltage is sent alone, the current axis falls back to zero
set_voltage_alone(v, wf) ==
    LET w == apply_vi(v, 0, wf)
    IN  [st |-> w.st, val |-> w.val, io |-> w.io, tv |-> v, ti |-> target_i]

\* the setters also give the fields as they leave them
set_voltage(v, wf) ==
    LET w == apply_vi(v, target_i, wf)
    IN  [st |-> w.st, val |-> w.val, io |-> w.io, tv |-> v, ti |-> target_i]

set_current(i, wf) ==
    LET w == apply_vi(target_v, i, wf)
    IN  [st |-> w.st, val |-> w.val, io |-> w.io, tv |-> target_v, ti |-> i]

output_on(wf) == _write("OUTPut:STATe ON", wf)

output_off(wf) == _write("OUTPut:STATe OFF", wf)

\* mutant: the first two fields are taken, however many there are
ParseMeasure_first_two(reply) ==
    LET f == Split(reply)
        v == IF Len(f) >= 2 THEN ParseFloat(f[1]) ELSE None
        i == IF Len(f) >= 2 THEN ParseFloat(f[2]) ELSE None
    IN  IF v # None /\ i # None
        THEN [v |-> v, i |-> i, raw |-> reply]
        ELSE [v |-> None, i |-> None, raw |-> reply]

\* the value measure_all returns: (v, i, reply) or (None, None, reply)
ParseMeasure(reply) ==
    LET f == Split(reply)
        v == IF Len(f) = 2 THEN ParseFloat(f[1]) ELSE None
        i == IF Len(f) = 2 THEN ParseFloat(f[2]) ELSE None
    IN  IF v # None /\ i # None
        THEN [v |-> v, i |-> i, raw |-> reply]
        ELSE [v |-> None, i |-> None, raw |-> reply]

measure_all(wf, line, rf) ==
    LET q == query("MEASure:SCALar:ALL?", wf, line, rf) IN
    IF q.st # "ok" THEN q
    ELSE [st |-> "ok", val |-> ParseMeasure(q.val), io |-> q.io]

set_remote(remote, wf) ==
    IF remote THEN _write("SYSTem:REMote", wf) ELSE _write("SYSTem:LOCal", wf)

\* sentMode once an operation that made the transport calls of r has run
SentAfter(r) ==
    IF r.io = <<W("SYSTem:REMote\r\n")>> THEN "REMote"
    ELSE IF r.io = <<W("SYSTem:LOCal\r\n")>> THEN "LOCal"
    ELSE sentMode

OvpLevel == "SOURce:VOLTage:PROTection:LEVel"
OcpLevel == "SOURce:CURRent:PROTection:LEVel"

set_ovp(v, wf) == _write(OvpLevel \o " " \o Fmt4(v), wf)

\* mutant: the level is "disabled" by a numeric zero
disable_ovp_numeric(wf) == _write(OvpLevel \o " " \o Fmt4(0), wf)

disable_ovp(wf) == _write(OvpLevel \o " MAX", wf)

set_ocp(i, wf) == _write(OcpLevel \o " " \o Fmt4(i), wf)

disable_ocp(wf) == _write(OcpLevel \o " MAX", wf)

\* mutant: the reply is parsed with int()
FloatReply_int(q) ==
    IF q.st # "ok" THEN q
    ELSE LET x == ParseInt(q.val) IN
         IF x = None THEN [st |-> "ValueError", val |-> NoVal, io |-> q.io]
         ELSE [st |-> "ok", val |-> x[1] * Unit, io |-> q.io]

\* float(reply) of get_ovp / get_ocp
FloatReply(q) ==
    IF q.st # "ok" THEN q
    ELSE LET x == ParseFloat(q.val) IN
         IF x = None THEN [st |-> "ValueError", val |-> NoVal, io |-> q.io]
         ELSE [st |-> "ok", val |-> x[1], io |-> q.io]

get_ovp(wf, line, rf) == FloatReply(query(OvpLevel \o "?", wf, line, rf))

get_ocp(wf, line, rf) == FloatReply(query(OcpLevel \o "?", wf, line, rf))

\* mutant: the over-current flag is read from bit 2
DecodeStatus_wrong_bit(s) ==
    [ov |-> BitAnd(s, 1) # 0, oc |-> BitAnd(s, 4) # 0, raw |-> s]

\* (ov, oc, s) of get_protection_status from s = int(reply)
DecodeStatus(s) ==
    [ov |-> BitAnd(s, 1) # 0, oc |-> BitAnd(s, 2) # 0, raw |-> s]

get_protection_status(wf, line, rf) ==
    LET q == query("STATus:QUEStionable:CONDition?", wf, line, rf) IN
    IF q.st # "ok" THEN q
    ELSE LET s == ParseInt(q.val) IN
         IF s = None THEN [st |-> "ValueError", val |-> NoVal, io |-> q.io]
         ELSE [st |-> "ok", val |-> DecodeStatus(s[1]), io |-> q.io]

-----------------------------------------------------------------------------
(* Bookkeeping shared by every action *)

\* the variables of a read in progress
Reading == <<rx, waited>>

\* the instrument's side of the wire, and the event loop
Wire == <<owed, inbuf>>
Loop == <<events, inflight>>

\* the operation name(arg) ended as r
Ended(name, arg, r) ==
    /\ op' = [name |-> name, arg |-> arg]
    /\ out' = [st |-> r.st, val |-> r.val]
    /\ io' = r.io

\* the operation name(arg) ran from call to return and ended as r
Done(name, arg, r) ==
    /\ Ended(name, arg, r)
    /\ UNCHANGED <<Reading, basic, Wire, Loop>>

Gui == <<is_remote, on_red, chk_ovp_en, chk_ocp_en>>
Fields == <<target_v, target_i>>

-----------------------------------------------------------------------------
(* SpecCtl: a caller invoking PSWController's methods in any order *)

InitCtl ==
    /\ ser = "None"
    /\ target_v = 0
    /\ target_i = 0
    /\ is_remote = FALSE
    /\ on_red = FALSE
    /\ chk_ovp_en = FALSE
    /\ chk_ocp_en = FALSE
    /\ op = [name |-> "__init__", arg |-> <<>>]
    /\ out = [st |-> "ok", val |-> NoVal]
    /\ io = <<>>
    /\ reqV = 0
    /\ reqI = 0
    /\ handles = 0
    /\ sentMode = "none"
    /\ rx = ""
    /\ waited = 0
    /\ basic = [ser |-> "None", target_v |-> 0, target_i |-> 0,
                out |-> [st |-> "ok", val |-> NoVal], io |-> <<>>]
    /\ owed = <<>>
    /\ inbuf = <<>>
    /\ events = <<>>
    /\ inflight = 0

\* open(port), for a port that opens and one that does not
CtlOpen ==
    \E port \in {"good", "bad"}, finalised \in BOOLEAN :
        LET r == open(port, finalised) IN
        /\ r.handles <= MaxHandles
        /\ ser' = r.ser
        /\ handles' = r.handles
        /\ sentMode' = IF r.st = "ok" THEN "none" ELSE sentMode
        /\ Done("open", <<port>>, [st |-> r.st, val |-> NoVal, io |-> r.io])
        /\ UNCHANGED <<Fields, Gui, reqV, reqI>>

CtlClose ==
    LET r == close(ser, handles) IN
    /\ ser' = r.ser
    /\ handles' = r.handles
    /\ sentMode' = IF r.st = "ok" THEN "none" ELSE sentMode
    /\ Done("close", <<>>, Raise(r.st))
    /\ UNCHANGED <<Fields, Gui, reqV, reqI>>

CtlGetIdn ==
    \E e \in QueryEnv :
        /\ Done("get_idn", <<>>, get_idn(e.wf, e.line, e.rf))
        /\ UNCHANGED <<ser, handles, sentMode, Fields, Gui, reqV, reqI>>

CtlSetVoltage ==
    \E v \in Values, e \in WriteEnv :
        LET r == set_voltage(v, e.wf) IN
        /\ target_v' = r.tv
        /\ target_i' = r.ti
        /\ reqV' = v
        /\ Done("set_voltage", <<v>>, r)
        /\ UNCHANGED <<ser, handles, sentMode, Gui, reqI>>

CtlSetCurrent ==
    \E i \in Values, e \in WriteEnv :
        LET r == set_current(i, e.wf) IN
        /\ target_v' = r.tv
        /\ target_i' = r.ti
        /\ reqI' = i
        /\ Done("set_current", <<i>>, r)
        /\ UNCHANGED <<ser, handles, sentMode, Gui, reqV>>

CtlOutputOn ==
    \E e \in WriteEnv :
        /\ Done("output_on", <<>>, output_on(e.wf))
        /\ UNCHANGED <<ser, handles, sentMode, Fields, Gui, reqV, reqI>>

CtlOutputOff ==
    \E e \in WriteEnv :
        /\ Done("output_off", <<>>, output_off(e.wf))
        /\ UNCHANGED <<ser, handles, sentMode, Fields, Gui, reqV, reqI>>

\* mutant: a measurement that parses is stored as the setpoint
CtlMeasureAll_stores ==
    \E e \in QueryEnv :
        LET r == measure_all(e.wf, e.line, e.rf)
            got == r.st = "ok" /\ r.val.v # None
        IN  /\ target_v' = IF got THEN r.val.v[1] ELSE target_v
            /\ target_i' = IF got THEN r.val.i[1] ELSE target_i
            /\ Done("measure_all", <<>>, r)
            /\ UNCHANGED <<ser, handles, sentMode, Gui, reqV, reqI>>

CtlMeasureAll ==
    \E e \in QueryEnv :
        /\ Done("measure_all", <<>>, measure_all(e.wf, e.line, e.rf))
        /\ UNCHANGED <<ser, handles, sentMode, Fields, Gui, reqV, reqI>>

CtlSetRemote ==
    \E remote \in BOOLEAN, e \in WriteEnv :
        LET r == set_remote(remote, e.wf) IN
        /\ sentMode' = SentAfter(r)
        /\ Done("set_remote", <<remote>>, r)
        /\ UNCHANGED <<ser, handles, Fields, Gui, reqV, reqI>>

CtlSetOvp ==
    \E v \in Values, e \in WriteEnv :
        /\ Done("set_ovp", <<v>>, set_ovp(v, e.wf))
        /\ UNCHANGED <<ser, handles, sentMode, Fields, Gui, reqV, reqI>>

CtlGetOvp ==
    \E e \in QueryEnv :
        /\ Done("get_ovp", <<>>, get_ovp(e.wf, e.line, e.rf))
        /\ UNCHANGED <<ser, handles, sentMode, Fields, Gui, reqV, reqI>>

CtlDisableOvp ==
    \E e \in WriteEnv :
        /\ Done("disable_ovp", <<>>, disable_ovp(e.wf))
        /\ UNCHANGED <<ser, handles, sentMode, Fields, Gui, reqV, reqI>>

CtlSetOcp ==
    \E i \in Values, e \in WriteEnv :
        /\ Done("set_ocp", <<i>>, set_ocp(i, e.wf))
        /\ UNCHANGED <<ser, handles, sentMode, Fields, Gui, reqV, reqI>>

CtlGetOcp ==
    \E e \in QueryEnv :
        /\ Done("get_ocp", <<>>, get_ocp(e.wf, e.line, e.rf))
        /\ UNCHANGED <<ser, handles, sentMode, Fields, Gui, reqV, reqI>>

CtlDisableOcp ==
    \E e \in WriteEnv :
        /\ Done("disable_ocp", <<>>, disable_ocp(e.wf))
        /\ UNCHANGED <<ser, handles, sentMode, Fields, Gui, reqV, reqI>>

CtlGetProtectionStatus ==
    \E e \in QueryEnv :
        /\ Done("get_protection_status", <<>>, get_protection_status(e.wf, e.line, e.rf))
        /\ UNCHANGED <<ser, handles, sentMode, Fields, Gui, reqV, reqI>>

NextCtl ==
    \/ CtlOpen
    \/ CtlClose
    \/ CtlGetIdn
    \/ CtlSetVoltage
    \/ CtlSetCurrent
    \/ CtlOutputOn
    \/ CtlOutputOff
    \/ CtlMeasureAll
    \/ CtlSetRemote
    \/ CtlSetOvp
    \/ CtlGetOvp
    \/ CtlDisableOvp
    \/ CtlSetOcp
    \/ CtlGetOcp
    \/ CtlDisableOcp
    \/ CtlGetProtectionStatus

SpecCtl == InitCtl /\ [][NextCtl]_vars

-----------------------------------------------------------------------------
(* Spec: MainWindow.  Every slot runs to its end before the next starts;   *)
(* the text of a QLineEdit is read when the slot runs, so it is an input   *)
(* of the slot.  Every widget of gui.ui is taken to exist, and the two     *)
(* check boxes to start unchecked.                                         *)

Init ==
    /\ ser = "None"
    /\ target_v = 5 * Unit
    /\ target_i = Unit
    /\ is_remote = FALSE
    /\ on_red = FALSE
    /\ chk_ovp_en = FALSE
    /\ chk_ocp_en = FALSE
    /\ op = [name |-> "__init__", arg |-> <<>>]
    /\ out = [st |-> "ok", val |-> NoVal]
    /\ io = <<>>
    /\ reqV = 5 * Unit
    /\ reqI = Unit
    /\ handles = 0
    /\ sentMode = "none"
    /\ rx = ""
    /\ waited = 0
    /\ basic = [ser |-> "None", target_v |-> 0, target_i |-> 0,
                out |-> [st |-> "ok", val |-> NoVal], io |-> <<>>]
    /\ owed = <<>>
    /\ inbuf = <<>>
    /\ events = <<>>
    /\ inflight = 0

\* the slot logged "not connected" and returned before calling the controller
NotConnected == Raise("NotConnected")

\* float(edit.text()) raised ValueError and the slot returned
BadText == Raise("BadText")

\* the connection and its two mirrors, as the disconnect branch sees them
Link == [ser |-> ser, handles |-> handles, on_red |-> on_red, is_remote |-> is_remote]

\* mutant: the port is closed and the mirrors are left as they are
disconnect_keeps_mirrors(s) ==
    LET c == close(s.ser, s.handles) IN
    [st |-> c.st, ser |-> c.ser, handles |-> c.handles,
     on_red |-> s.on_red, is_remote |-> s.is_remote]

\* the disconnect branch of handle_connect_clicked run in s: psw.close(),
\* set_on_button_color(False), is_remote = False.  An exception of close()
\* leaves the slot before the mirrors are touched.
disconnect(s) ==
    LET c == close(s.ser, s.handles) IN
    IF c.st # "ok"
    THEN [st |-> c.st, ser |-> c.ser, handles |-> c.handles,
          on_red |-> s.on_red, is_remote |-> s.is_remote]
    ELSE [st |-> "ok", ser |-> c.ser, handles |-> c.handles,
          on_red |-> FALSE, is_remote |-> FALSE]

\* port: what get_selected_port() gives: nothing, a port that opens, one that
\* does not
handle_connect_clicked ==
    \E port \in {"none", "good", "bad"} :
        /\ IF is_open
           THEN LET d == disconnect(Link) IN
                /\ ser' = d.ser
                /\ handles' = d.handles
                /\ on_red' = d.on_red
                /\ is_remote' = d.is_remote
                /\ sentMode' = IF d.st = "ok" THEN "none" ELSE sentMode
                /\ Done("handle_connect_clicked", <<port>>,
                        Raise(IF d.st = "ok" THEN "disconnected" ELSE d.st))
           ELSE IF port = "none"
           THEN /\ Done("handle_connect_clicked", <<port>>, Raise("NoPort"))
                /\ UNCHANGED <<ser, handles, sentMode, on_red, is_remote>>
           ELSE LET r == open(port, TRUE) IN
                /\ ser' = r.ser
                /\ handles' = r.handles
                /\ sentMode' = IF r.st = "ok" THEN "none" ELSE sentMode
                /\ Done("handle_connect_clicked", <<port>>,
                        [st |-> r.st, val |-> NoVal, io |-> r.io])
                /\ UNCHANGED <<on_red, is_remote>>
        /\ UNCHANGED <<Fields, chk_ovp_en, chk_ocp_en, reqV, reqI>>

handle_test_clicked ==
    \E e \in QueryEnv :
        /\ Done("handle_test_clicked", <<>>,
                IF ~is_open THEN NotConnected ELSE get_idn(e.wf, e.line, e.rf))
        /\ UNCHANGED <<ser, handles, sentMode, Fields, Gui, reqV, reqI>>

\* mutant: the button is painted before the command is sent
handle_on_clicked_paints_first ==
    \E e \in WriteEnv :
        LET r == IF ~is_open THEN NotConnected ELSE output_on(e.wf) IN
        /\ on_red' = IF is_open THEN TRUE ELSE on_red
        /\ Done("handle_on_clicked", <<>>, r)
        /\ UNCHANGED <<ser, handles, sentMode, Fields, is_remote, chk_ovp_en, chk_ocp_en, reqV, reqI>>

handle_on_clicked ==
    \E e \in WriteEnv :
        LET r == IF ~is_open THEN NotConnected ELSE output_on(e.wf) IN
        /\ on_red' = IF r.st = "ok" THEN TRUE ELSE on_red
        /\ Done("handle_on_clicked", <<>>, r)
        /\ UNCHANGED <<ser, handles, sentMode, Fields, is_remote, chk_ovp_en, chk_ocp_en, reqV, reqI>>

handle_off_clicked ==
    \E e \in WriteEnv :
        LET r == IF ~is_open THEN NotConnected ELSE output_off(e.wf) IN
        /\ on_red' = IF r.st = "ok" THEN FALSE ELSE on_red
        /\ Done("handle_off_clicked", <<>>, r)
        /\ UNCHANGED <<ser, handles, sentMode, Fields, is_remote, chk_ovp_en, chk_ocp_en, reqV, reqI>>

handle_set_v_clicked ==
    \E text \in Texts, e \in WriteEnv :
        LET v == ParseFloat(text)
            called == is_open /\ v # None
        IN  /\ IF called
               THEN LET r == set_voltage(v[1], e.wf) IN
                    /\ target_v' = r.tv
                    /\ target_i' = r.ti
                    /\ reqV' = v[1]
                    /\ Done("handle_set_v_clicked", <<text>>, r)
               ELSE /\ Done("handle_set_v_clicked", <<text>>,
                            IF ~is_open THEN NotConnected ELSE BadText)
                    /\ UNCHANGED <<Fields, reqV>>
            /\ UNCHANGED <<ser, handles, sentMode, Gui, reqI>>

handle_set_a_clicked ==
    \E text \in Texts, e \in WriteEnv :
        LET i == ParseFloat(text)
            called == is_open /\ i # None
        IN  /\ IF called
               THEN LET r == set_current(i[1], e.wf) IN
                    /\ target_v' = r.tv
                    /\ target_i' = r.ti
                    /\ reqI' = i[1]
                    /\ Done("handle_set_a_clicked", <<text>>, r)
               ELSE /\ Done("handle_set_a_clicked", <<text>>,
                            IF ~is_open THEN NotConnected ELSE BadText)
                    /\ UNCHANGED <<Fields, reqI>>
            /\ UNCHANGED <<ser, handles, sentMode, Gui, reqV>>

\* clears the log pane, which is not modelled
handle_clean_clicked ==
    /\ Done("handle_clean_clicked", <<>>, Raise("ok"))
    /\ UNCHANGED <<ser, handles, sentMode, Fields, Gui, reqV, reqI>>

handle_read_clicked ==
    \E e \in QueryEnv :
        /\ Done("handle_read_clicked", <<>>,
                IF ~is_open THEN NotConnected ELSE measure_all(e.wf, e.line, e.rf))
        /\ UNCHANGED <<ser, handles, sentMode, Fields, Gui, reqV, reqI>>

\* mutant: the flag is flipped before the command is sent
handle_remote_clicked_flips_first ==
    \E e \in WriteEnv :
        LET target == ~is_remote
            r == IF ~is_open THEN NotConnected ELSE set_remote(target, e.wf)
        IN  /\ is_remote' = IF is_open THEN target ELSE is_remote
            /\ sentMode' = SentAfter(r)
            /\ Done("handle_remote_clicked", <<target>>, r)
            /\ UNCHANGED <<ser, handles, Fields, on_red, chk_ovp_en, chk_ocp_en, reqV, reqI>>

handle_remote_clicked ==
    \E e \in WriteEnv :
        LET target == ~is_remote
            r == IF ~is_open THEN NotConnected ELSE set_remote(target, e.wf)
        IN  /\ is_remote' = IF r.st = "ok" THEN target ELSE is_remote
            /\ sentMode' = SentAfter(r)
            /\ Done("handle_remote_clicked", <<target>>, r)
            /\ UNCHANGED <<ser, handles, Fields, on_red, chk_ovp_en, chk_ocp_en, reqV, reqI>>

handle_set_ovp_clicked ==
    \E text \in Texts, e \in WriteEnv :
        LET v == ParseFloat(text) IN
        /\ Done("handle_set_ovp_clicked", <<text>>,
                IF ~is_open THEN NotConnected
                ELSE IF v = None THEN BadText
                ELSE set_ovp(v[1], e.wf))
        /\ UNCHANGED <<ser, handles, sentMode, Fields, Gui, reqV, reqI>>

\* mutant: a level that was set switches the protection on
handle_set_ocp_clicked_enables ==
    \E text \in Texts, e \in WriteEnv :
        LET i == ParseFloat(text)
            r == IF ~is_open THEN NotConnected
                 ELSE IF i = None THEN BadText
                 ELSE set_ocp(i[1], e.wf)
        IN  /\ Done("handle_set_ocp_clicked", <<text>>, r)
            /\ chk_ocp_en' = IF r.st = "ok" THEN TRUE ELSE chk_ocp_en
            /\ UNCHANGED <<ser, handles, sentMode, Fields, is_remote, on_red, chk_ovp_en, reqV, reqI>>

handle_set_ocp_clicked ==
    \E text \in Texts, e \in WriteEnv :
        LET i == ParseFloat(text) IN
        /\ Done("handle_set_ocp_clicked", <<text>>,
                IF ~is_open THEN NotConnected
                ELSE IF i = None THEN BadText
                ELSE set_ocp(i[1], e.wf))
        /\ UNCHANGED <<ser, handles, sentMode, Fields, Gui, reqV, reqI>>

\* The operator clicks the OVP check box: Qt flips it and emits
\* toggled(checked) with the new state; the slot puts it back only when the
\* port is not open.
handle_ovp_enable_toggled ==
    \E text \in Texts, e \in WriteEnv :
        LET checked == ~chk_ovp_en
            v == ParseFloat(text)
        IN  /\ chk_ovp_en' = IF ~is_open THEN ~checked ELSE checked
            /\ Done("handle_ovp_enable_toggled", <<checked, text>>,
                    IF ~is_open THEN NotConnected
                    ELSE IF checked
                         THEN (IF v = None THEN BadText ELSE set_ovp(v[1], e.wf))
                         ELSE disable_ovp(e.wf))
            /\ UNCHANGED <<ser, handles, sentMode, Fields, is_remote, on_red, chk_ocp_en, reqV, reqI>>

handle_ocp_enable_toggled ==
    \E text \in Texts, e \in WriteEnv :
        LET checked == ~chk_ocp_en
            i == ParseFloat(text)
        IN  /\ chk_ocp_en' = IF ~is_open THEN ~checked ELSE checked
            /\ Done("handle_ocp_enable_toggled", <<checked, text>>,
                    IF ~is_open THEN NotConnected
                    ELSE IF checked
                         THEN (IF i = None THEN BadText ELSE set_ocp(i[1], e.wf))
                         ELSE disable_ocp(e.wf))
            /\ UNCHANGED <<ser, handles, sentMode, Fields, is_remote, on_red, chk_ovp_en, reqV, reqI>>

handle_prot_status_clicked ==
    \E e \in QueryEnv :
        /\ Done("handle_prot_status_clicked", <<>>,
                IF ~is_open THEN NotConnected
                ELSE get_protection_status(e.wf, e.line, e.rf))
        /\ UNCHANGED <<ser, handles, sentMode, Fields, Gui, reqV, reqI>>

Next ==
    \/ handle_connect_clicked
    \/ handle_test_clicked
    \/ handle_on_clicked
    \/ handle_off_clicked
    \/ handle_set_v_clicked
    \/ handle_set_a_clicked
    \/ handle_clean_clicked
    \/ handle_read_clicked
    \/ handle_remote_clicked
    \/ handle_set_ovp_clicked
    \/ handle_set_ocp_clicked
    \/ handle_ovp_enable_toggled
    \/ handle_ocp_enable_toggled
    \/ handle_prot_status_clicked

Spec == Init /\ [][Next]_vars

-----------------------------------------------------------------------------
(* What the claims are stated with *)

\* the controller's command operations (everything but open and close)
CommandOps ==
    {"get_idn", "set_voltage", "set_current", "output_on", "output_off",
     "measure_all", "set_remote", "set_ovp", "get_ovp", "disable_ovp",
     "set_ocp", "get_ocp", "disable_ocp", "get_protection_status"}

Setters == {"set_voltage", "set_current"}

\* s is a decimal number with exactly four digits after the point
IsFixed4(s) ==
    LET u == IF Len(s) > 0 /\ Head(s) = "-" THEN Tail(s) ELSE s
        d == FindDot(u, 1)
    IN  /\ d > 1
        /\ Len(u) = d + 4
        /\ AllDigits(SubSeq(u, 1, d - 1))
        /\ AllDigits(SubSeq(u, d + 1, Len(u)))

\* the text t reads as the number x to within half a unit of the fourth digit
Reads(t, x) ==
    LET a == ParseFloat(t) IN a # None /\ 2 * Abs(a[1] - x) <= 10

EndsCRLF(line) ==
    Len(line) >= 2 /\ SubSeq(line, Len(line) - 1, Len(line)) = "\r\n"

\* line is head, then comma-separated fields, then CR+LF: the fields
FieldsAfter(head, line) ==
    IF /\ Len(line) >= Len(head) + 2
       /\ SubSeq(line, 1, Len(head)) = head
       /\ EndsCRLF(line)
    THEN Split(SubSeq(line, Len(head) + 1, Len(line) - 2))
    ELSE <<>>

\* the operation made exactly one transport call, a write of line
WroteOnly(line) == io = <<[k |-> "w", line |-> line]>>

\* C1: a command operation invoked while is_open() is false fails with the
\* not-connected error (RuntimeError "Serial port not open") and makes no
\* transport call, so no byte is written.  (No command operation changes ser,
\* so is_open() after the call is is_open() at the call.)
C1_ClosedFailsWithoutWrite ==
    (op.name \in CommandOps /\ ~is_open) => (out.st = "NotOpen" /\ io = <<>>)

\* a query was invoked on a closed controller
C1_Witness ==
    op.name = "get_protection_status" /\ ~is_open /\ out.st = "NotOpen"

\* C2 (as claimed): a set_voltage / set_current call that fails leaves
\* target_v and target_i as they were.
C2_FailedSetterKeepsSetpoint ==
    [][(op'.name \in Setters /\ out'.st # "ok")
        => (target_v' = target_v /\ target_i' = target_i)]_vars

\* C3: for v, i >= 0, after set_voltage(v) and then a successful
\* set_current(i) the operation has written one line, "APPLy <v>,<i>" CR LF,
\* both numbers with exactly four digits after the point and equal to v and i
\* after rounding, and the fields hold (v, i).  reqV is the argument of the
\* latest set_voltage call.
C3_SetVoltageThenCurrent ==
    (op.name = "set_current" /\ out.st = "ok" /\ reqV >= 0 /\ op.arg[1] >= 0) =>
        /\ Len(io) = 1
        /\ io[1].k = "w"
        /\ LET f == FieldsAfter("APPLy ", io[1].line) IN
               /\ Len(f) = 2
               /\ IsFixed4(f[1]) /\ Reads(f[1], reqV)
               /\ IsFixed4(f[2]) /\ Reads(f[2], op.arg[1])
        /\ target_v = reqV
        /\ target_i = op.arg[1]
        /\ (reqV = 1234567 /\ op.arg[1] = 5 * Unit
               => io[1].line = "APPLy 12.3457,5.0000\r\n")

\* set_voltage(12.34567) then set_current(5.0) succeeded
C3_Witness ==
    /\ op = [name |-> "set_current", arg |-> <<5 * Unit>>]
    /\ out.st = "ok"
    /\ reqV = 1234567

\* C4: every successful set_voltage / set_current makes exactly one transport
\* call, the write of one APPLy line with both axes: its argument on the axis
\* it sets and, on the other axis, the argument of that axis's latest setter
\* call (reqV, reqI; the initial value before any), whether or not that call
\* got its line out, and whatever opens and closes came between.
C4_ApplyCarriesBothAxes ==
    (op.name \in Setters /\ out.st = "ok") =>
        LET v == IF op.name = "set_voltage" THEN op.arg[1] ELSE reqV
            i == IF op.name = "set_current" THEN op.arg[1] ELSE reqI
        IN  WroteOnly("APPLy " \o Fmt4(v) \o "," \o Fmt4(i) \o "\r\n")

\* a successful set_voltage while the current axis holds an earlier request
C4_Witness ==
    /\ op = [name |-> "set_voltage", arg |-> <<5 * Unit>>]
    /\ out.st = "ok"
    /\ reqI = 1234567
    /\ io = <<[k |-> "w", line |-> "APPLy 5.0000,12.3457\r\n"]>>

\* the reply _readline() makes of each line of WireLines: the line without its
\* CR+LF and without the bytes that are not ASCII
ReplyOf(line) ==
    CASE line = "" -> ""
      [] line = "12.3400,0.5000\r\n" -> "12.3400,0.5000"
      [] line = "ERR#\r\n" -> "ERR"
      [] line = "1,2,3\r\n" -> "1,2,3"
      [] line = "abc,1.0\r\n" -> "abc,1.0"
      [] line = "0\r\n" -> "0"
      [] line = "2\r\n" -> "2"
      [] line = "3\r\n" -> "3"
      [] line = "4\r\n" -> "4"
      [] line = "-1\r\n" -> "-1"
      [] line = "15.0000\r\n" -> "15.0000"

\* the operation wrote its command and read line back
ReadBack(line) == Len(io) = 2 /\ io[2] = [k |-> "r", line |-> line]

\* C5: once measure_all has read a line, whatever the line (none before the
\* timeout, one field, three fields, fields that are no floats), it returns
\* normally; raw is the reply as read; voltage and current are the two floats
\* of "12.3400,0.5000" (12.34 and 0.5) and both None for every other line.
C5_MeasureNeverRaisesOnReply ==
    (op.name = "measure_all" /\ Len(io) = 2) =>
        /\ out.st = "ok"
        /\ out.val.raw = ReplyOf(io[2].line)
        /\ IF io[2].line = "12.3400,0.5000\r\n"
           THEN out.val.v = <<1234000>> /\ out.val.i = <<50000>>
           ELSE out.val.v = <<>> /\ out.val.i = <<>>

\* measure_all read "ERR" and returned (None, None, "ERR")
C5_Witness ==
    /\ op.name = "measure_all"
    /\ ReadBack("ERR#\r\n")
    /\ out = [st |-> "ok", val |-> [v |-> <<>>, i |-> <<>>, raw |-> "ERR"]]

\* C6: when the instrument answers the condition query with an unsigned
\* integer n, get_protection_status returns over_voltage = bit 0 of n,
\* over_current = bit 1 of n and raw = n: 3 gives (true, true), 0 gives
\* (false, false), 2 gives (false, true), 4 gives (false, false) with raw 4.
C6_StatusBits ==
    (op.name = "get_protection_status" /\ out.st = "ok" /\ out.val.raw >= 0) =>
        /\ out.val.ov = (out.val.raw % 2 = 1)
        /\ out.val.oc = ((out.val.raw \div 2) % 2 = 1)
        /\ ReadBack("0\r\n") => out.val = [ov |-> FALSE, oc |-> FALSE, raw |-> 0]
        /\ ReadBack("2\r\n") => out.val = [ov |-> FALSE, oc |-> TRUE, raw |-> 2]
        /\ ReadBack("3\r\n") => out.val = [ov |-> TRUE, oc |-> TRUE, raw |-> 3]
        /\ ReadBack("4\r\n") => out.val = [ov |-> FALSE, oc |-> FALSE, raw |-> 4]

\* the reply 4 was decoded: no flag, the bit kept in raw
C6_Witness ==
    /\ op.name = "get_protection_status"
    /\ ReadBack("4\r\n")
    /\ out.val = [ov |-> FALSE, oc |-> FALSE, raw |-> 4]

\* the lines of WireLines that are an unsigned integer
UnsignedLines == {"0\r\n", "2\r\n", "3\r\n", "4\r\n"}

\* C7 (as claimed): get_protection_status fails whenever the reply it read is
\* not an unsigned integer (the empty reply of a timeout and a negative
\* number included), and then returns no decoded result.
C7_NotUnsignedFails ==
    (op.name = "get_protection_status" /\ Len(io) = 2
        /\ io[2].line \notin UnsignedLines)
    => (out.st = "ValueError" /\ out.val = NoVal)

OvpMax == "SOURce:VOLTage:PROTection:LEVel MAX\r\n"
OcpMax == "SOURce:CURRent:PROTection:LEVel MAX\r\n"

\* the slot called the controller (the port was open)
Called == out.st # "NotConnected"

\* everything the operation wrote is line
WroteAtMost(line) == \A k \in 1..Len(io) : io[k] = [k |-> "w", line |-> line]

\* C8: whenever the OVP (OCP) box is unticked and disable_ovp()
\* (disable_ocp()) runs, whatever threshold was sent before, the only line it
\* can put on the wire is the level command with MAX, that line is written
\* when the write does not fail, and the enable flag is false afterwards.
C8_DisableSendsMax ==
    /\ (op.name = "handle_ovp_enable_toggled" /\ ~op.arg[1] /\ Called) =>
           /\ WroteAtMost(OvpMax)
           /\ out.st = "ok" => WroteOnly(OvpMax)
           /\ ~chk_ovp_en
    /\ (op.name = "handle_ocp_enable_toggled" /\ ~op.arg[1] /\ Called) =>
           /\ WroteAtMost(OcpMax)
           /\ out.st = "ok" => WroteOnly(OcpMax)
           /\ ~chk_ocp_en

\* OVP was switched off on an open port
C8_Witness ==
    /\ op.name = "handle_ovp_enable_toggled"
    /\ ~op.arg[1]
    /\ out.st = "ok"
    /\ WroteOnly(OvpMax)
    /\ ~chk_ovp_en

\* the operation wrote head, one number of four decimals that reads as text,
\* and CR+LF, and did nothing else on the transport
WroteLevel(head, text) ==
    /\ Len(io) = 1
    /\ io[1].k = "w"
    /\ LET f == FieldsAfter(head, io[1].line) IN
           /\ Len(f) = 1
           /\ IsFixed4(f[1])
           /\ Reads(f[1], ParseFloat(text)[1])

\* C9 (as claimed): ticking the OVP (OCP) box sends the numeric threshold and
\* leaves the flag true, and the flag is not true after a request that put
\* nothing on the wire.
C9_EnableOnlyWithTransmit ==
    /\ (op.name = "handle_ovp_enable_toggled" /\ op.arg[1]) =>
           /\ out.st = "ok" =>
                  (chk_ovp_en /\ WroteLevel("SOURce:VOLTage:PROTection:LEVel ", op.arg[2]))
           /\ io = <<>> => ~chk_ovp_en
    /\ (op.name = "handle_ocp_enable_toggled" /\ op.arg[1]) =>
           /\ out.st = "ok" =>
                  (chk_ocp_en /\ WroteLevel("SOURce:CURRent:PROTection:LEVel ", op.arg[2]))
           /\ io = <<>> => ~chk_ocp_en

\* the outcome of the latest step, for the formulas about one step
SetLevelStep(name, head) ==
    op'.name = name =>
        /\ chk_ovp_en' = chk_ovp_en
        /\ chk_ocp_en' = chk_ocp_en
        /\ out'.st = "ok" =>
               /\ Len(io') = 1
               /\ io'[1].k = "w"
               /\ LET f == FieldsAfter(head, io'[1].line) IN
                      /\ Len(f) = 1
                      /\ IsFixed4(f[1])
                      /\ Reads(f[1], ParseFloat(op'.arg[1])[1])

\* C10: a set-OVP (set-OCP) request writes the level command with the number
\* in four decimals and leaves both enable flags as they were, true or false.
C10_SetLevelKeepsFlags ==
    [][/\ SetLevelStep("handle_set_ovp_clicked", "SOURce:VOLTage:PROTection:LEVel ")
       /\ SetLevelStep("handle_set_ocp_clicked", "SOURce:CURRent:PROTection:LEVel ")]_vars

\* an OCP level was sent while OCP was off and OVP on
C10_Witness ==
    /\ op = [name |-> "handle_set_ocp_clicked", arg |-> <<"12.34567">>]
    /\ WroteOnly("SOURce:CURRent:PROTection:LEVel 12.3457\r\n")
    /\ chk_ovp_en
    /\ ~chk_ocp_en

\* the connection is Closed, the output mirror Off, the mode mirror Local
ClosedOffLocal(s) == s.ser = "None" /\ ~s.on_red /\ ~s.is_remote

\* C11: from every reachable state a disconnect does not fail and leaves
\* {Closed, Off, Local}; a second one right after it does not fail either and
\* leaves exactly the state the first one left (no handle is closed twice).
\* When the connect button has just disconnected, the application is in that
\* state.
C11_DisconnectIdempotent ==
    LET s1 == disconnect(Link)
        s2 == disconnect(s1)
    IN  /\ s1.st = "ok"
        /\ ClosedOffLocal(s1)
        /\ s2.st = "ok"
        /\ s2 = s1
        /\ (op.name = "handle_connect_clicked" /\ out.st = "disconnected") =>
               /\ ClosedOffLocal(Link)
               /\ handles = 0
               /\ disconnect(Link) = [st |-> "ok", ser |-> ser, handles |-> handles,
                                      on_red |-> on_red, is_remote |-> is_remote]

\* the button has disconnected, and a second disconnect would change nothing
C11_Witness ==
    /\ op.name = "handle_connect_clicked"
    /\ out.st = "disconnected"
    /\ disconnect(disconnect(Link)) = disconnect(Link)
    /\ ClosedOffLocal(Link)

\* C12: whenever the connection is Closed, the output mirror is Off and the
\* mode mirror is Local.
C12_ClosedMeansOffLocal == ~is_open => (~on_red /\ ~is_remote)

\* the ON button was pressed while Closed, and the mirror stayed Off
C12_Witness ==
    /\ op.name = "handle_on_clicked"
    /\ out.st = "NotConnected"
    /\ ~is_open
    /\ ~on_red
    /\ ~is_remote

\* what set_remote(remote) puts on the wire
ModeLine(remote) == IF remote THEN "SYSTem:REMote\r\n" ELSE "SYSTem:LOCal\r\n"

\* what holds after every step, whatever the claim says about who changes the
\* flag: a toggle that succeeded wrote the line of its target mode and left
\* the flag at that mode; the flag is the mode of the last mode command
\* written on this connection (false when there was none); a toggle that
\* failed left the flag as it was.
ModeStep ==
    /\ (op'.name = "handle_remote_clicked" /\ out'.st = "ok") =>
           /\ io' = <<[k |-> "w", line |-> ModeLine(op'.arg[1])]>>
           /\ is_remote' = op'.arg[1]
    /\ is_remote' = (sentMode' = "REMote")
    /\ (op'.name = "handle_remote_clicked" /\ out'.st # "ok") =>
           /\ is_remote' = is_remote
           /\ \A k \in 1..Len(io') : io'[k].k # "w"

\* C13 (as claimed): set_remote(true) sends SYSTem:REMote and
\* set_remote(false) SYSTem:LOCal, the flag is the mode of the last mode
\* command sent, a failed send leaves it, and no operation but the
\* remote/local toggle changes it.
C13_OnlyToggleChangesFlag ==
    [][/\ ModeStep
       /\ is_remote' # is_remote => op'.name = "handle_remote_clicked"]_vars

\* C13 (amended): as claimed, except that the flag is changed by the
\* remote/local toggle and by disconnect, which resets it to false.
C13_ToggleOrDisconnectChangesFlag ==
    [][/\ ModeStep
       /\ is_remote' # is_remote =>
              \/ op'.name = "handle_remote_clicked"
              \/ /\ op'.name = "handle_connect_clicked"
                 /\ out'.st = "disconnected"
                 /\ ~is_remote']_vars

\* the toggle went back to local: SYSTem:LOCal was the last command sent
C13_Witness ==
    /\ op = [name |-> "handle_remote_clicked", arg |-> <<FALSE>>]
    /\ out.st = "ok"
    /\ WroteOnly("SYSTem:LOCal\r\n")
    /\ sentMode = "LOCal"
    /\ ~is_remote

\* the step was the output slot name: when its send succeeded it wrote line
\* and nothing else and the mirror is mirror; when it did not, nothing was
\* written and the mirror is as before; in no case was anything read back
OutputStep(name, line, mirror) ==
    op'.name = name =>
        /\ out'.st = "ok" =>
               (io' = <<[k |-> "w", line |-> line]>> /\ on_red' = mirror)
        /\ out'.st # "ok" => (io' = <<>> /\ on_red' = on_red)
        /\ \A k \in 1..Len(io') : io'[k].k # "r"

\* C14: output_on() sends OUTPut:STATe ON and the output mirror becomes On,
\* output_off() sends OUTPut:STATe OFF and it becomes Off; when the send fails
\* the mirror keeps its value; neither reads anything back.
C14_OutputMirrorFollowsSend ==
    [][/\ OutputStep("handle_on_clicked", "OUTPut:STATe ON\r\n", TRUE)
       /\ OutputStep("handle_off_clicked", "OUTPut:STATe OFF\r\n", FALSE)]_vars

\* OFF was pressed while the output was On and the write failed: still On
C14_Witness ==
    /\ op.name = "handle_off_clicked"
    /\ out.st = "IoError"
    /\ io = <<>>
    /\ on_red

\* the operations that set something and those that ask for something
SetOps ==
    {"set_voltage", "set_current", "output_on", "output_off", "set_remote",
     "set_ovp", "disable_ovp", "set_ocp", "disable_ocp"}

QueryOps == CommandOps \ SetOps

\* C15: the transport calls of one command operation are nothing, one write,
\* or one write and then one read.  A set operation never reads and has
\* written exactly once when it succeeded; a query that got its reply has
\* written once and then read once; when the write did not go through (closed
\* port, write fault) there is no transport call at all, so no read and no
\* second write follow it.
C15_OneWriteThenOneRead ==
    op.name \in CommandOps =>
        /\ Len(io) <= 2
        /\ Len(io) >= 1 => io[1].k = "w"
        /\ Len(io) = 2 => io[2].k = "r"
        /\ op.name \in SetOps =>
               /\ Len(io) <= 1
               /\ out.st = "ok" <=> Len(io) = 1
        /\ op.name \in QueryOps =>
               /\ out.st \in {"ok", "ValueError"} <=> Len(io) = 2
               /\ out.st = "NotOpen" => io = <<>>
               /\ out.st = "IoError" => Len(io) <= 1

\* a query wrote its command and then its read failed: one write, no retry
C15_Witness ==
    /\ op.name = "get_ocp"
    /\ out.st = "IoError"
    /\ io = <<[k |-> "w", line |-> "SOURce:CURRent:PROTection:LEVel?\r\n"]>>

-----------------------------------------------------------------------------
(* SpecQuery: one query at a time, step by step.  The command is written,   *)
(* ser.readline() waits for bytes, and returns when the line is complete or *)
(* when the port's read timeout has run out; the call then returns.         *)

\* clock ticks in the read timeout open() gives the port (timeout=1.0)
TimeoutTicks == 2

\* most bytes the instrument sends before it ends the line or falls silent
MaxRx == 3

\* what arrives at the port in one piece
Chunks == {"1", ",", "#", "\r\n"}

\* the query operation name, run with this behaviour of the port
Run(name, wf, line, rf) ==
    CASE name = "get_idn" -> get_idn(wf, line, rf)
      [] name = "measure_all" -> measure_all(wf, line, rf)
      [] name = "get_ovp" -> get_ovp(wf, line, rf)
      [] name = "get_ocp" -> get_ocp(wf, line, rf)
      [] name = "get_protection_status" -> get_protection_status(wf, line, rf)

\* a query has written its command and is inside ser.readline()
Pending == out.st = "pending"

LineComplete == Len(rx) > 0 /\ Char(rx, Len(rx)) = "\n"

\* mutant: the port is opened with timeout=None
ReadExpired_never(w) == FALSE

\* the read has waited w ticks for a byte: the timeout of the port is over
ReadExpired(w) == w >= TimeoutTicks

\* ser.readline() has what it returns: a whole line, or what came before the
\* timeout
Returnable == Pending /\ (LineComplete \/ ReadExpired(waited))

RdOpen == ~Pending /\ CtlOpen

RdClose == ~Pending /\ CtlClose

\* a query is called: it fails in _write, or writes its command and starts
\* to read
RdCall ==
    \E name \in QueryOps, wf \in BOOLEAN :
        /\ ~Pending
        /\ IF ~is_open \/ wf
           THEN Done(name, <<>>, Run(name, wf, "", FALSE))
           ELSE /\ op' = [name |-> name, arg |-> <<>>]
                /\ out' = [st |-> "pending", val |-> NoVal]
                /\ io' = <<Run(name, FALSE, "", FALSE).io[1]>>
                /\ rx' = ""
                /\ waited' = 0
                /\ UNCHANGED <<basic, Wire, Loop>>
        /\ UNCHANGED <<ser, handles, sentMode, Fields, Gui, reqV, reqI>>

\* bytes arrive; the wait for the next byte starts again
RdByte ==
    \E c \in Chunks :
        /\ Pending
        /\ ~LineComplete
        /\ ~ReadExpired(waited)
        /\ Len(rx) < MaxRx
        /\ rx' = rx \o c
        /\ waited' = 0
        /\ UNCHANGED <<ser, handles, sentMode, Fields, Gui, reqV, reqI, op, out, io>>
        /\ UNCHANGED <<basic, Wire, Loop>>

\* time passes with no byte
RdTick ==
    /\ Pending
    /\ ~LineComplete
    /\ waited < TimeoutTicks
    /\ waited' = waited + 1
    /\ UNCHANGED <<ser, handles, sentMode, Fields, Gui, reqV, reqI, op, out, io, rx>>
    /\ UNCHANGED <<basic, Wire, Loop>>

\* ser.readline() returns what it has, and the query returns
RdReturn ==
    /\ Returnable
    /\ Done(op.name, <<>>, Run(op.name, FALSE, rx, FALSE))
    /\ UNCHANGED <<ser, handles, sentMode, Fields, Gui, reqV, reqI>>

\* ser.readline() raises (the port went away)
RdFault ==
    /\ Pending
    /\ Done(op.name, <<>>, Run(op.name, FALSE, rx, TRUE))
    /\ UNCHANGED <<ser, handles, sentMode, Fields, Gui, reqV, reqI>>

NextQuery ==
    \/ RdOpen
    \/ RdClose
    \/ RdCall
    \/ RdByte
    \/ RdTick
    \/ RdReturn
    \/ RdFault

\* Time passes, and a readline() that can return does.  RdReturn is enabled
\* exactly in the states of Returnable and every RdReturn step leaves them, so
\* weak fairness of RdReturn is that Returnable does not hold for ever.
SpecQuery ==
    InitCtl /\ [][NextQuery]_vars /\ WF_vars(RdTick) /\ []<>~Returnable

\* the query has returned after a read that timed out with no byte received
TimedOutEmpty == ~Pending /\ op.name \in QueryOps /\ Len(io) = 2 /\ io[2].line = ""

\* C16: a read that times out with no byte received gives the empty reply and
\* no transport error (get_idn, which returns the reply as it is, returns ""),
\* and every query that is waiting for its reply eventually returns: its read
\* ends by a complete line or by the timeout of the port.
C16_QueryCompletes ==
    /\ [](TimedOutEmpty =>
             /\ out.st \in {"ok", "ValueError"}
             /\ op.name = "get_idn" => out = [st |-> "ok", val |-> ""]
             /\ op.name = "measure_all" => (out.st = "ok" /\ out.val.raw = ""))
    /\ (Pending ~> ~Pending)

\* the instrument never answered, the timeout ran out, get_idn returned ""
C16_Witness ==
    /\ op.name = "get_idn"
    /\ out = [st |-> "ok", val |-> ""]
    /\ rx = ""
    /\ waited = TimeoutTicks
    /\ io = <<[k |-> "w", line |-> "*IDN?\r\n"], [k |-> "r", line |-> ""]>>

\* the connect button is pressed with a port selected that opens
ConnectSucceeds ==
    /\ handle_connect_clicked
    /\ op'.arg = <<"good">>
    /\ out'.st = "ok"
    /\ ser' = "Open"

\* C17: when the connect button is pressed while Closed with a port that does
\* not open, open(port) is tried once and raises, the slot reports it, the
\* controller stays Closed with no handle, and the setpoints, the mirrors and
\* the check boxes are as before; from the state this leaves, a connect with
\* a port that opens succeeds.
C17_FailedOpenStaysClosed ==
    [][/\ (op'.name = "handle_connect_clicked" /\ op'.arg = <<"bad">> /\ ~is_open) =>
              /\ out'.st = "OpenError"
              /\ io' = <<[k |-> "o", line |-> "bad"]>>
              /\ ser' = "None"
              /\ handles' = 0
              /\ UNCHANGED <<target_v, target_i, is_remote, on_red,
                             chk_ovp_en, chk_ocp_en, sentMode>>
       /\ (op.name = "handle_connect_clicked" /\ out.st = "OpenError") =>
              ENABLED ConnectSucceeds]_vars

\* an open failed after the operator had set 12.34567 V and ticked OVP
C17_Witness ==
    /\ op = [name |-> "handle_connect_clicked", arg |-> <<"bad">>]
    /\ out.st = "OpenError"
    /\ ~is_open
    /\ target_v = 1234567
    /\ chk_ovp_en

-----------------------------------------------------------------------------
(* SpecEcho: the controller on a transport that answers a level query with  *)
(* the level of the set command it has just received.                       *)

\* the thresholds set: those of Values, and 15.0
Levels == Values \cup {15 * Unit}

\* the line the transport answers with after the level command line
EchoOf(head, line) == FieldsAfter(head \o " ", line)[1] \o CRLF

EchoSetOvp ==
    \E v \in Levels, e \in WriteEnv :
        /\ Done("set_ovp", <<v>>, set_ovp(v, e.wf))
        /\ UNCHANGED <<ser, handles, sentMode, Fields, Gui, reqV, reqI>>

EchoSetOcp ==
    \E i \in Levels, e \in WriteEnv :
        /\ Done("set_ocp", <<i>>, set_ocp(i, e.wf))
        /\ UNCHANGED <<ser, handles, sentMode, Fields, Gui, reqV, reqI>>

\* get_ovp() right after a set_ovp or a disable_ovp that was sent
EchoGetOvp ==
    /\ op.name \in {"set_ovp", "disable_ovp"}
    /\ out.st = "ok"
    /\ Done("get_ovp", <<>>, get_ovp(FALSE, EchoOf(OvpLevel, io[1].line), FALSE))
    /\ UNCHANGED <<ser, handles, sentMode, Fields, Gui, reqV, reqI>>

EchoGetOcp ==
    /\ op.name \in {"set_ocp", "disable_ocp"}
    /\ out.st = "ok"
    /\ Done("get_ocp", <<>>, get_ocp(FALSE, EchoOf(OcpLevel, io[1].line), FALSE))
    /\ UNCHANGED <<ser, handles, sentMode, Fields, Gui, reqV, reqI>>

NextEcho ==
    \/ CtlOpen
    \/ CtlClose
    \/ EchoSetOvp
    \/ EchoSetOcp
    \/ CtlDisableOvp
    \/ CtlDisableOcp
    \/ EchoGetOvp
    \/ EchoGetOcp

SpecEcho == InitCtl /\ [][NextEcho]_vars

\* x rounded to four decimals, in units of 1/Unit
Round4(x) == (IF x < 0 THEN -1 ELSE 1) * ((Abs(x) + 5) \div 10) * 10

\* the step was the query name right after the set operation setter: it
\* returned what was set, rounded to four decimals
RoundTrip(setter, name) ==
    (op.name = setter /\ op'.name = name) =>
        /\ out' = [st |-> "ok", val |-> Round4(op.arg[1])]
        /\ op.arg[1] = 15 * Unit => out'.val = 15 * Unit
        /\ op.arg[1] = 1234567 => out'.val = 1234570
        /\ op.arg[1] = -Unit => out'.val = -Unit

\* C18: on a transport that echoes the level just set, get_ovp() after
\* set_ovp(v) returns v rounded to four decimals (15.0 gives 15.0000, 12.34567
\* gives 12.3457), and get_ocp() after set_ocp(i) likewise.
C18_LevelRoundTrip ==
    [][RoundTrip("set_ovp", "get_ovp") /\ RoundTrip("set_ocp", "get_ocp")]_vars

\* get_ovp() read back the 15.0000 that set_ovp(15.0) had sent
C18_Witness ==
    /\ op.name = "get_ovp"
    /\ out = [st |-> "ok", val |-> 15 * Unit]
    /\ io = <<[k |-> "w", line |-> "SOURce:VOLTage:PROTection:LEVel?\r\n"],
              [k |-> "r", line |-> "15.0000\r\n"]>>

\* the numbers of the APPLy line the operation wrote, if it wrote one
ApplyFields == IF Len(io) = 1 /\ io[1].k = "w" THEN FieldsAfter("APPLy ", io[1].line) ELSE <<>>

\* C19 (as claimed): target_v and target_i are never negative, and no APPLy
\* line that is written carries a negative number.
C19_SetpointsNonNegative ==
    /\ target_v >= 0
    /\ target_i >= 0
    /\ \A k \in 1..Len(ApplyFields) : Sign(ApplyFields[k]) = 1

\* C20 (as claimed): of the serial handles a controller has opened, at most
\* one is open at any time, whatever opens and closes were called.
C20_AtMostOneHandle == handles <= 1

\* C22: a call that changes target_v or target_i is a set_voltage or a
\* set_current call; open, close and every other operation of the controller
\* leave both fields as they were, whether they succeed or fail.
C22_OnlySettersChangeSetpoints ==
    [][(target_v' # target_v \/ target_i' # target_i) => op'.name \in Setters]_vars

\* a measurement came back with 12.34 V and 0.5 A while the setpoints were
\* 12.34567 V and 5.0 A
C22_Witness ==
    /\ op.name = "measure_all"
    /\ out.st = "ok"
    /\ out.val.v = <<1234000>>
    /\ target_v = 1234567
    /\ target_i = 5 * Unit

\* what the last operation transmitted as the level under head: <<"MAX">>, a
\* number, or <<>> when it transmitted no such command
LevelSent(head) ==
    IF Len(io) = 1 /\ io[1].k = "w" THEN FieldsAfter(head \o " ", io[1].line) ELSE <<>>

\* C25 (as claimed), for the moment right after a level command was
\* transmitted, when that command is the last one on the connection: the OVP
\* flag is false exactly when the command carried MAX and true exactly when
\* it carried a number, and likewise the OCP flag.
C25_FlagAgreesWithLastLevel ==
    /\ LevelSent(OvpLevel) # <<>> => (chk_ovp_en <=> LevelSent(OvpLevel) # <<"MAX">>)
    /\ LevelSent(OcpLevel) # <<>> => (chk_ocp_en <=> LevelSent(OcpLevel) # <<"MAX">>)

-----------------------------------------------------------------------------
(* The PSWController of main.py, on a controller state b = basic.  Every    *)
(* operator gives the outcome [st, val, io] and the fields as the call      *)
(* leaves them.                                                             *)

main_result(st, val, calls, b) ==
    [st |-> st, val |-> val, io |-> calls,
     ser |-> b.ser, target_v |-> b.target_v, target_i |-> b.target_i]

main_open(b, port) ==
    IF port = "bad"
    THEN main_result("OpenError", NoVal, <<O(port)>>, b)
    ELSE main_result("ok", NoVal, <<O(port)>>, [b EXCEPT !.ser = "Open"])

main_close(b) == main_result("ok", NoVal, <<>>, [b EXCEPT !.ser = "None"])

main_is_open(b) == b.ser # "None"

main_write(b, cmd, wf) ==
    IF ~main_is_open(b) THEN main_result("NotOpen", NoVal, <<>>, b)
    ELSE IF wf THEN main_result("IoError", NoVal, <<>>, b)
    ELSE main_result("ok", NoVal, <<W(cmd \o CRLF)>>, b)

main_readline(b, line, rf) ==
    IF ~main_is_open(b) THEN main_result("NotOpen", NoVal, <<>>, b)
    ELSE IF rf THEN main_result("IoError", NoVal, <<>>, b)
    ELSE main_result("ok", Strip(Decode(line)), <<R(line)>>, b)

main_query(b, cmd, wf, line, rf) ==
    LET w == main_write(b, cmd, wf) IN
    IF w.st # "ok" THEN w
    ELSE LET r == main_readline(b, line, rf)
         IN  main_result(r.st, r.val, w.io \o r.io, b)

main_get_idn(b, wf, line, rf) == main_query(b, "*IDN?", wf, line, rf)

main_apply_vi(b, wf) ==
    main_write(b, "APPLy " \o Fmt4(b.target_v) \o "," \o Fmt4(b.target_i), wf)

\* mutant: the field is assigned once the command is out
main_set_voltage_after(b, v, wf) ==
    LET w == main_apply_vi([b EXCEPT !.target_v = v], wf)
    IN  IF w.st = "ok" THEN w ELSE main_result(w.st, w.val, w.io, b)

main_set_voltage(b, v, wf) == main_apply_vi([b EXCEPT !.target_v = v], wf)

main_set_current(b, i, wf) == main_apply_vi([b EXCEPT !.target_i = i], wf)

main_output_on(b, wf) == main_write(b, "OUTPut:STATe ON", wf)

main_output_off(b, wf) == main_write(b, "OUTPut:STATe OFF", wf)

main_measure_all(b, wf, line, rf) ==
    LET q == main_query(b, "MEASure:SCALar:ALL?", wf, line, rf)
        f == Split(q.val)
        v == IF Len(f) = 2 THEN ParseFloat(f[1]) ELSE None
        i == IF Len(f) = 2 THEN ParseFloat(f[2]) ELSE None
    IN  IF q.st # "ok" THEN q
        ELSE IF v # None /\ i # None
        THEN main_result("ok", [v |-> v, i |-> i, raw |-> q.val], q.io, b)
        ELSE main_result("ok", [v |-> None, i |-> None, raw |-> q.val], q.io, b)

\* basic once a call of main.py's controller has ended as r
BasicAfter(r) ==
    [ser |-> r.ser, target_v |-> r.target_v, target_i |-> r.target_i,
     out |-> [st |-> r.st, val |-> r.val], io |-> r.io]

-----------------------------------------------------------------------------
(* SpecPair: one caller driving a controller of ver2.py and a controller of *)
(* main.py with the same calls, over ports that behave alike.               *)

\* the call ends as r in ver2.py's controller and as m in main.py's
Both(name, arg, r, m) ==
    /\ Ended(name, arg, r)
    /\ basic' = BasicAfter(m)
    /\ UNCHANGED <<Reading, Wire, Loop>>

PairOpen ==
    \E port \in {"good", "bad"}, finalised \in BOOLEAN :
        LET r == open(port, finalised) IN
        /\ r.handles <= MaxHandles
        /\ ser' = r.ser
        /\ handles' = r.handles
        /\ sentMode' = IF r.st = "ok" THEN "none" ELSE sentMode
        /\ Both("open", <<port>>, [st |-> r.st, val |-> NoVal, io |-> r.io],
                main_open(basic, port))
        /\ UNCHANGED <<Fields, Gui, reqV, reqI>>

PairClose ==
    LET r == close(ser, handles) IN
    /\ ser' = r.ser
    /\ handles' = r.handles
    /\ sentMode' = IF r.st = "ok" THEN "none" ELSE sentMode
    /\ Both("close", <<>>, Raise(r.st), main_close(basic))
    /\ UNCHANGED <<Fields, Gui, reqV, reqI>>

PairGetIdn ==
    \E e \in QueryEnv :
        /\ Both("get_idn", <<>>, get_idn(e.wf, e.line, e.rf),
                main_get_idn(basic, e.wf, e.line, e.rf))
        /\ UNCHANGED <<ser, handles, sentMode, Fields, Gui, reqV, reqI>>

PairSetVoltage ==
    \E v \in Values, e \in WriteEnv :
        LET r == set_voltage(v, e.wf) IN
        /\ target_v' = r.tv
        /\ target_i' = r.ti
        /\ reqV' = v
        /\ Both("set_voltage", <<v>>, r, main_set_voltage(basic, v, e.wf))
        /\ UNCHANGED <<ser, handles, sentMode, Gui, reqI>>

PairSetCurrent ==
    \E i \in Values, e \in WriteEnv :
        LET r == set_current(i, e.wf) IN
        /\ target_v' = r.tv
        /\ target_i' = r.ti
        /\ reqI' = i
        /\ Both("set_current", <<i>>, r, main_set_current(basic, i, e.wf))
        /\ UNCHANGED <<ser, handles, sentMode, Gui, reqV>>

PairOutputOn ==
    \E e \in WriteEnv :
        /\ Both("output_on", <<>>, output_on(e.wf), main_output_on(basic, e.wf))
        /\ UNCHANGED <<ser, handles, sentMode, Fields, Gui, reqV, reqI>>

PairOutputOff ==
    \E e \in WriteEnv :
        /\ Both("output_off", <<>>, output_off(e.wf), main_output_off(basic, e.wf))
        /\ UNCHANGED <<ser, handles, sentMode, Fields, Gui, reqV, reqI>>

PairMeasureAll ==
    \E e \in QueryEnv :
        /\ Both("measure_all", <<>>, measure_all(e.wf, e.line, e.rf),
                main_measure_all(basic, e.wf, e.line, e.rf))
        /\ UNCHANGED <<ser, handles, sentMode, Fields, Gui, reqV, reqI>>

\* what basic.out holds after a call that main.py's controller does not have
NotCalled == [st |-> "absent", val |-> NoVal]

\* a method that only ver2.py's controller has ends as r; main.py's
\* controller is not called
Only(name, arg, r) ==
    /\ Ended(name, arg, r)
    /\ basic' = [basic EXCEPT !.out = NotCalled, !.io = <<>>]
    /\ UNCHANGED <<Reading, Wire, Loop>>

OnlySetRemote ==
    \E remote \in BOOLEAN, e \in WriteEnv :
        LET r == set_remote(remote, e.wf) IN
        /\ sentMode' = SentAfter(r)
        /\ Only("set_remote", <<remote>>, r)
        /\ UNCHANGED <<ser, handles, Fields, Gui, reqV, reqI>>

OnlySetOvp ==
    \E v \in Values, e \in WriteEnv :
        /\ Only("set_ovp", <<v>>, set_ovp(v, e.wf))
        /\ UNCHANGED <<ser, handles, sentMode, Fields, Gui, reqV, reqI>>

OnlyGetOvp ==
    \E e \in QueryEnv :
        /\ Only("get_ovp", <<>>, get_ovp(e.wf, e.line, e.rf))
        /\ UNCHANGED <<ser, handles, sentMode, Fields, Gui, reqV, reqI>>

OnlyDisableOvp ==
    \E e \in WriteEnv :
        /\ Only("disable_ovp", <<>>, disable_ovp(e.wf))
        /\ UNCHANGED <<ser, handles, sentMode, Fields, Gui, reqV, reqI>>

OnlySetOcp ==
    \E i \in Values, e \in WriteEnv :
        /\ Only("set_ocp", <<i>>, set_ocp(i, e.wf))
        /\ UNCHANGED <<ser, handles, sentMode, Fields, Gui, reqV, reqI>>

OnlyGetOcp ==
    \E e \in QueryEnv :
        /\ Only("get_ocp", <<>>, get_ocp(e.wf, e.line, e.rf))
        /\ UNCHANGED <<ser, handles, sentMode, Fields, Gui, reqV, reqI>>

OnlyDisableOcp ==
    \E e \in WriteEnv :
        /\ Only("disable_ocp", <<>>, disable_ocp(e.wf))
        /\ UNCHANGED <<ser, handles, sentMode, Fields, Gui, reqV, reqI>>

OnlyGetProtectionStatus ==
    \E e \in QueryEnv :
        /\ Only("get_protection_status", <<>>, get_protection_status(e.wf, e.line, e.rf))
        /\ UNCHANGED <<ser, handles, sentMode, Fields, Gui, reqV, reqI>>

NextPair ==
    \/ PairOpen
    \/ PairClose
    \/ PairGetIdn
    \/ PairSetVoltage
    \/ PairSetCurrent
    \/ PairOutputOn
    \/ PairOutputOff
    \/ PairMeasureAll
    \/ OnlySetRemote
    \/ OnlySetOvp
    \/ OnlyGetOvp
    \/ OnlyDisableOvp
    \/ OnlySetOcp
    \/ OnlyGetOcp
    \/ OnlyDisableOcp
    \/ OnlyGetProtectionStatus

SpecPair == InitCtl /\ [][NextPair]_vars

BasicOps ==
    {"open", "close", "get_idn", "set_voltage", "set_current", "output_on",
     "output_off", "measure_all"}

\* the two controllers are in the same state
SameState ==
    /\ main_is_open(basic) = is_open
    /\ basic.target_v = target_v
    /\ basic.target_i = target_i

\* C23: driven by the same calls of the shared operations over ports that
\* behave alike, the controllers of main.py and ver2.py are in the same state
\* (is_open, target_v, target_i) after every call, a shared operation ends the
\* same way in both with the same transport calls, so the same lines sent, and
\* an operation that only ver2.py has changes nothing of that state.
C23_BasicControllerAgrees ==
    [][/\ SameState'
       /\ op'.name \in BasicOps => (basic'.out = out' /\ basic'.io = io')
       /\ op'.name \notin BasicOps =>
              (is_open' = is_open /\ target_v' = target_v /\ target_i' = target_i)]_vars

C23_Witness ==
    /\ op.name = "set_voltage" /\ out.st = "IoError" /\ basic.out = out
    /\ basic.target_v = 1234567 /\ target_v = 1234567
    /\ basic.target_i = -Unit /\ is_open

-----------------------------------------------------------------------------
(* SpecLoop: the window inside app.exec_(), step by step.  Clicks queue up  *)
(* as events; the loop hands the next one to its slot when the slot before  *)
(* has returned (one thread, direct connections, no slot re-enters the      *)
(* loop).  A query slot writes its command and sits in ser.readline() until *)
(* a line is in the port's input buffer or the read timeout runs out.  The  *)
(* instrument answers every query with one line, in its own time.           *)

\* most clicks waiting in the event queue
MaxEvents == 2

\* most reply lines under way: owed by the instrument or in the input buffer
MaxWire == 2

Buttons == {"connect", "test", "read"}

\* the slot a button is connected to
SlotOf(b) ==
    CASE b = "connect" -> "handle_connect_clicked"
      [] b = "test" -> "handle_test_clicked"
      [] b = "read" -> "handle_read_clicked"

\* the query a slot calls
QueryOf(slot) == IF slot = "handle_test_clicked" THEN "get_idn" ELSE "measure_all"

\* the line the instrument sends back for a command line
Instrument(line) ==
    IF line = "*IDN?\r\n" THEN "PSW\r\n" ELSE "12.3400,0.5000\r\n"

\* mutant: events are handed out while a slot is still running
Idle_reentrant == TRUE

\* the loop is back in app.exec_(): no slot is running
Idle == inflight = 0

\* the operator clicks a button
Click ==
    \E b \in Buttons :
        /\ Len(events) < MaxEvents
        /\ events' = Append(events, b)
        /\ UNCHANGED <<ser, handles, sentMode, Fields, Gui, reqV, reqI, op, out, io>>
        /\ UNCHANGED <<Reading, basic, Wire, inflight>>

\* the loop runs handle_connect_clicked to its end; closing the port, and
\* opening it, empties its input buffer
LoopConnect ==
    \E port \in {"good", "bad"} :
        /\ Idle
        /\ events # <<>> /\ Head(events) = "connect"
        /\ events' = Tail(events)
        /\ IF is_open
           THEN LET d == disconnect(Link) IN
                /\ ser' = d.ser
                /\ handles' = d.handles
                /\ on_red' = d.on_red
                /\ is_remote' = d.is_remote
                /\ sentMode' = IF d.st = "ok" THEN "none" ELSE sentMode
                /\ inbuf' = <<>>
                /\ Ended("handle_connect_clicked", <<port>>,
                         Raise(IF d.st = "ok" THEN "disconnected" ELSE d.st))
           ELSE LET r == open(port, TRUE) IN
                /\ ser' = r.ser
                /\ handles' = r.handles
                /\ sentMode' = IF r.st = "ok" THEN "none" ELSE sentMode
                /\ inbuf' = IF r.st = "ok" THEN <<>> ELSE inbuf
                /\ Ended("handle_connect_clicked", <<port>>,
                         [st |-> r.st, val |-> NoVal, io |-> r.io])
                /\ UNCHANGED <<on_red, is_remote>>
        /\ UNCHANGED <<Fields, chk_ovp_en, chk_ocp_en, reqV, reqI>>
        /\ UNCHANGED <<Reading, basic, owed, inflight>>

\* the loop starts handle_test_clicked or handle_read_clicked: the slot
\* returns at once when the port is closed or the write raises; otherwise
\* the command is out, the instrument owes its reply, and the slot reads
LoopQuery ==
    \E wf \in BOOLEAN :
        /\ Idle
        /\ events # <<>> /\ Head(events) \in {"test", "read"}
        /\ events' = Tail(events)
        /\ LET slot == SlotOf(Head(events))
               w == Run(QueryOf(slot), wf, "", FALSE)
           IN  IF ~is_open
               THEN /\ Ended(slot, <<>>, NotConnected)
                    /\ UNCHANGED <<owed, inflight>>
               ELSE IF wf
               THEN /\ Ended(slot, <<>>, w)
                    /\ UNCHANGED <<owed, inflight>>
               ELSE /\ Len(owed) + Len(inbuf) < MaxWire
                    /\ op' = [name |-> slot, arg |-> <<>>]
                    /\ out' = [st |-> "pending", val |-> NoVal]
                    /\ io' = <<w.io[1]>>
                    /\ owed' = Append(owed, Instrument(w.io[1].line))
                    /\ inflight' = inflight + 1
        /\ UNCHANGED <<ser, handles, sentMode, Fields, Gui, reqV, reqI>>
        /\ UNCHANGED <<Reading, basic, inbuf>>

\* the instrument sends the reply it owes longest; the line lands in the
\* input buffer of the port, or nowhere when the port is closed
Deliver ==
    /\ owed # <<>>
    /\ owed' = Tail(owed)
    /\ inbuf' = IF is_open THEN Append(inbuf, Head(owed)) ELSE inbuf
    /\ UNCHANGED <<ser, handles, sentMode, Fields, Gui, reqV, reqI, op, out, io>>
    /\ UNCHANGED <<Reading, basic, Loop>>

\* ser.readline() returns the first line of the input buffer; the slot ends
LoopReadLine ==
    /\ Pending
    /\ inbuf # <<>>
    /\ inbuf' = Tail(inbuf)
    /\ inflight' = inflight - 1
    /\ Ended(op.name, <<>>, Run(QueryOf(op.name), FALSE, Head(inbuf), FALSE))
    /\ UNCHANGED <<ser, handles, sentMode, Fields, Gui, reqV, reqI>>
    /\ UNCHANGED <<Reading, basic, owed, events>>

\* the read timeout runs out with the input buffer empty: ser.readline()
\* returns no bytes; the slot ends
LoopTimeout ==
    /\ Pending
    /\ inbuf = <<>>
    /\ inflight' = inflight - 1
    /\ Ended(op.name, <<>>, Run(QueryOf(op.name), FALSE, "", FALSE))
    /\ UNCHANGED <<ser, handles, sentMode, Fields, Gui, reqV, reqI>>
    /\ UNCHANGED <<Reading, basic, Wire, events>>

NextLoop ==
    \/ Click
    \/ LoopConnect
    \/ LoopQuery
    \/ Deliver
    \/ LoopReadLine
    \/ LoopTimeout

SpecLoop == Init /\ [][NextLoop]_vars

\* a command line is written in this step
Writes == io' # io /\ io' # <<>> /\ io'[Len(io')].k = "w"

\* C21: no two operations are ever in flight on the connection: at most one
\* slot is running, no command is written and the port is not closed while
\* a query that has written its command is still waiting in its read.
C21_OneOperationInFlight ==
    [][/\ inflight' <= 1
       /\ Pending => ~Writes
       /\ Pending /\ is_open => is_open']_vars

C21_Witness ==
    /\ Pending /\ inflight = 1 /\ is_open
    /\ events = <<"connect", "test">>
    /\ op.name = "handle_read_clicked"

\* C24: the line a query reads is the instrument's reply to the command
\* that same query wrote, or nothing at all after a timeout.
C24_ReplyIsToOwnCommand ==
    (op.name \in {"handle_test_clicked", "handle_read_clicked"}
        /\ out.st = "ok" /\ Len(io) = 2)
    => io[2].line \in {"", Instrument(io[1].line)}

=============================================================================
